---------------------------- MODULE Spec2Model ----------------------------
(***************************************************************************)
(* YapperJS: the supervisor of one llama-server child process.             *)
(*                                                                         *)
(* The model follows the Express application (src/unnamed/part_000): its   *)
(* three globals, its request handlers and the callbacks it registers on   *)
(* the spawned child.  Node runs every handler and every callback to       *)
(* completion on one thread, and the start handler contains no await, so   *)
(* each handler and each callback is one atomic action.  It also follows   *)
(* checkLlamaServer (src/src/install.js) and the page that drives the      *)
(* server (src/public/script.js): its form, its command preview, its       *)
(* Start button and its status polling.                                    *)
(***************************************************************************)
EXTENDS Integers, Sequences, FiniteSets, TLC

(***************************************************************************)
(* Bounds of the model.                                                    *)
(***************************************************************************)
MaxChildren == 2   \* children spawned in one behaviour of Spec
MaxLogLen == 2     \* appends stop at this buffer length in Spec
MaxFlags == 3      \* entries of a request body in SpecArgs
MaxRetained == 101 \* the retained maximum the specification leaves unnamed
MaxPolls == 2      \* status requests of the page in flight at once

(***************************************************************************)
(* JavaScript values.  A value carries its type tag; the fields a type     *)
(* does not use hold a fixed filler, so that equality of two records is    *)
(* JavaScript's strict equality (same type and same value).                *)
(***************************************************************************)
Bool(x) == [t |-> "boolean", b |-> x, n |-> 0, s |-> ""]
Num(x) == [t |-> "number", b |-> FALSE, n |-> x, s |-> ""]
Str(x) == [t |-> "string", b |-> FALSE, n |-> 0, s |-> x]
Null == [t |-> "null", b |-> FALSE, n |-> 0, s |-> ""]
Undefined == [t |-> "undefined", b |-> FALSE, n |-> 0, s |-> ""]

\* ToBoolean: what `!x` and Array.prototype.some test.
Truthy(v) ==
    CASE v.t = "boolean" -> v.b
      [] v.t = "number" -> v.n # 0
      [] v.t = "string" -> v.s # ""
      [] OTHER -> FALSE

\* String(value), and the conversion a template literal applies.
ToStr(v) ==
    CASE v.t = "boolean" -> (IF v.b THEN "true" ELSE "false")
      [] v.t = "number" -> ToString(v.n)
      [] v.t = "string" -> v.s
      [] v.t = "null" -> "null"
      [] OTHER -> "undefined"

(***************************************************************************)
(* The flag catalogue (config/llama-flags.json, read at line 64).  The     *)
(* file is input data; the model holds one entry of each shape the         *)
(* argument builder distinguishes: two numbers with a default (one of them *)
(* 0), a boolean whose default is false, a boolean whose default is true,  *)
(* a string without default, and a preset.  "default" is Undefined where   *)
(* the entry has none, which is what flagDef?.default evaluates to.        *)
(***************************************************************************)
flagDefinitions ==
    [threads |-> [type |-> "number", default |-> Num(4)],
     verbose |-> [type |-> "boolean", default |-> Bool(FALSE)],
     mmap |-> [type |-> "boolean", default |-> Bool(TRUE)],
     keep |-> [type |-> "number", default |-> Num(0)],
     model |-> [type |-> "string", default |-> Undefined]]
    @@ ("embd-gemma-default" :> [type |-> "boolean", default |-> Bool(FALSE)])

\* The preset flags the start handler recognises (lines 91..103).
presetFlags ==
    <<"embd-gemma-default", "fim-qwen-1.5b-default", "fim-qwen-3b-default",
      "fim-qwen-7b-default", "fim-qwen-7b-spec", "fim-qwen-14b-spec",
      "fim-qwen-30b-default", "gpt-oss-20b-default", "gpt-oss-120b-default",
      "vision-gemma-4b-default", "vision-gemma-12b-default">>

\* flagDefinitions[key]?.default
DefaultOf(key) ==
    IF key \in DOMAIN flagDefinitions THEN flagDefinitions[key].default
    ELSE Undefined

(***************************************************************************)
(* A request body is the sequence Object.entries yields: <<key, value>>    *)
(* pairs with distinct keys, in insertion order.                           *)
(***************************************************************************)
\* flags[key]
Lookup(flags, key) ==
    IF \E i \in 1..Len(flags) : flags[i][1] = key
    THEN flags[CHOOSE i \in 1..Len(flags) : flags[i][1] = key][2]
    ELSE Undefined

\* presetFlags.some(p => flags[p])
HasPreset(flags) ==
    \E i \in 1..Len(presetFlags) : Truthy(Lookup(flags, presetFlags[i]))

\* The test of line 116: the value is neither '' nor null nor undefined.
IsSupplied(value) == value # Str("") /\ value # Null /\ value # Undefined

\* The test of line 121: value !== defaultValue.
DiffersEverything(key, value) == TRUE
DiffersFromDefault(key, value) == value # DefaultOf(key)

\* The tokens one entry pushes (lines 122..126).
EntryTokensValued(key, value) == <<"--" \o key, ToStr(value)>>
EntryTokensJoined(key, value) ==
    IF value.t = "boolean"
    THEN (IF value.b THEN <<"--" \o key>> ELSE <<>>)
    ELSE <<"--" \o key \o "=" \o ToStr(value)>>
EntryTokens(key, value) ==
    IF value.t = "boolean"
    THEN (IF value.b THEN <<"--" \o key>> ELSE <<>>)
    ELSE <<"--" \o key, ToStr(value)>>

\* The loop of lines 114..129.
RECURSIVE BuildArgs(_)
BuildArgs(flags) ==
    IF flags = <<>> THEN <<>>
    ELSE LET key == Head(flags)[1]
             value == Head(flags)[2]
             here == IF IsSupplied(value) /\ DiffersFromDefault(key, value)
                     THEN EntryTokens(key, value)
                     ELSE <<>>
         IN here \o BuildArgs(Tail(flags))

(***************************************************************************)
(* The page (src/public/script.js).  The form holds one input per flag of  *)
(* allFlags, which is the catalogue as GET /flag-definitions serves it     *)
(* (lines 195..197).  An input is its checked property and its value, the  *)
(* value being the sequence of the characters typed.                       *)
(***************************************************************************)
\* Object.keys(allFlags): the order of the catalogue file.
flagOrder ==
    <<"model", "threads", "keep", "verbose", "mmap", "embd-gemma-default">>

Input(checked, value) == [checked |-> checked, value |-> value]

\* Number.NaN: typeof NaN is 'number'.
NaN == [t |-> "number", b |-> FALSE, n |-> 0, s |-> "NaN"]

Digits == <<"0", "1", "2", "3", "4", "5", "6", "7", "8", "9">>
IsDigit(ch) == \E d \in 1..10 : Digits[d] = ch
DigitValue(ch) == (CHOOSE d \in 1..10 : Digits[d] = ch) - 1

\* The number the leading decimal digits of cs denote, read after acc.
RECURSIVE Decimal(_, _)
Decimal(cs, acc) ==
    IF cs # <<>> /\ IsDigit(Head(cs))
    THEN Decimal(Tail(cs), 10 * acc + DigitValue(Head(cs)))
    ELSE acc

\* parseFloat(input.value), for unsigned texts without fraction or exponent:
\* the longest prefix of digits, NaN when the text does not start with one.
ParseFloat(cs) ==
    IF cs # <<>> /\ IsDigit(Head(cs)) THEN Num(Decimal(cs, 0)) ELSE NaN

\* The characters of a text input joined into input.value.
RECURSIVE Joined(_)
Joined(cs) == IF cs = <<>> THEN "" ELSE Head(cs) \o Joined(Tail(cs))

\* The value getFormValues reads from one input (script.js lines 720..729).
FormValue(flagName, input) ==
    LET flagDef == flagDefinitions[flagName]
    IN IF flagDef.type = "boolean" THEN Bool(input.checked)
       ELSE IF flagDef.type = "number"
       THEN (IF ParseFloat(input.value) = NaN THEN Null
             ELSE ParseFloat(input.value))
       ELSE (IF Joined(input.value) = "" THEN Null
             ELSE Str(Joined(input.value)))

\* The test of lines 732..739 without the comparison with the default.
IncludedWithDefaults(flagName, value) ==
    value # Null /\ value # Str("") /\ value # Undefined

\* Lines 732..739: the value is set and is not the flag's default.
\* 'default' in flagDef is false for the entry that has none.
Included(flagName, value) ==
    LET hasDefault == flagDefinitions[flagName].default # Undefined
        isDefaultValue == hasDefault /\ flagDefinitions[flagName].default = value
    IN /\ value # Null /\ value # Str("") /\ value # Undefined
       /\ ~isDefaultValue

\* getFormValues (script.js lines 712..743), from the flag at place i on.
RECURSIVE FormValuesFrom(_, _)
FormValuesFrom(form, i) ==
    IF i > Len(flagOrder) THEN <<>>
    ELSE LET flagName == flagOrder[i]
             value == FormValue(flagName, form[flagName])
             here == IF Included(flagName, value)
                     THEN <<<<flagName, value>>>>
                     ELSE <<>>
         IN here \o FormValuesFrom(form, i + 1)

getFormValues(form) == FormValuesFrom(form, 1)

\* JSON.parse(JSON.stringify(config)), as express.json() hands the body to
\* the start handler: booleans, finite numbers and strings come back as
\* they were, and a number that is not finite comes back as null.
RECURSIVE JsonRoundTrip(_)
JsonRoundTrip(config) ==
    IF config = <<>> THEN <<>>
    ELSE LET key == Head(config)[1]
             value == Head(config)[2]
         IN <<<<key, IF value = NaN THEN Null ELSE value>>>>
                \o JsonRoundTrip(Tail(config))

\* `"${value}"`
Quoted(value) == "\"" \o ToStr(value) \o "\""

\* The args of updateCommandPreview (script.js lines 407..418); the page
\* shows them joined by spaces after the word llama-server.
RECURSIVE PreviewArgs(_)
PreviewArgs(config) ==
    IF config = <<>> THEN <<>>
    ELSE LET key == Head(config)[1]
             value == Head(config)[2]
             here == IF IsSupplied(value)
                     THEN (IF value.t = "boolean"
                           THEN (IF value.b THEN <<"--" \o key>> ELSE <<>>)
                           ELSE <<"--" \o key, Quoted(value)>>)
                     ELSE <<>>
         IN here \o PreviewArgs(Tail(config))

updateCommandPreview(form) == PreviewArgs(getFormValues(form))

\* The text of an input that shows a default (script.js lines 636..638,
\* 696..700), nothing without a default.  The defaults of the catalogue
\* above are numbers of one digit.
DefaultText(default) ==
    IF default.t = "number" THEN <<ToString(default.n)>>
    ELSE IF default.t = "string" THEN <<default.s>>
    ELSE <<>>

\* The form as generateDynamicUI and populateFormDefaults leave it.
DefaultForm ==
    [flagName \in DOMAIN flagDefinitions |->
        Input(flagDefinitions[flagName].default = Bool(TRUE),
              DefaultText(flagDefinitions[flagName].default))]

(***************************************************************************)
(* The state: the three globals of lines 18..20, the child processes the   *)
(* operating system holds for the supervisor, and the record of the last   *)
(* handler or callback that ran (what it answered, what it was given).     *)
(***************************************************************************)
VARIABLES
    serverStatus,        \* 'stopped' | 'starting' | 'running'
    llamaServerProcess,  \* the tracked ChildProcess (its pid), or NoProcess
    serverLogs,          \* sequence of log entries
    alive,               \* pids spawned and not yet closed
    spawned,             \* number of children spawned so far
    spawnArgs,           \* the argument list of the latest spawn call
    last,                \* the last handler or callback and its outcome
    awaitingExit,        \* history: a start succeeded and no exit entry
                         \* has been appended since
    client               \* the page: its form, its buttons, its requests

vars == <<serverStatus, llamaServerProcess, serverLogs, alive, spawned,
          spawnArgs, last, awaitingExit, client>>

\* The variables of the supervisor, which a step of the page leaves alone.
server == <<serverStatus, llamaServerProcess, serverLogs, alive, spawned,
            spawnArgs, last, awaitingExit>>

NoProcess == 0   \* llamaServerProcess = null

\* A log entry (timestamps left out).  pid is not a field of the program's
\* entry: it records which child's callback appended it.
LogEntry(type, message, pid) == [type |-> type, message |-> message, pid |-> pid]

\* The outcome of a handler or callback; unused fields hold fillers.
\* binary, models and spawn are what a start request found as far as it
\* looked: "" or -1 where it returned before looking.  message is the
\* trimmed text a 'data' callback was given.  serverPath is what
\* checkLlamaServer returned to a start request, and runnable whether
\* llama-server could be run when it was called.
Outcome(op) ==
    [op |-> op, code |-> 0, error |-> "", flags |-> <<>>, status |-> "",
     logs |-> <<>>, pid |-> NoProcess, exit |-> Undefined, kill |-> NoProcess,
     binary |-> "", models |-> -1, spawn |-> "", message |-> "",
     serverPath |-> Undefined, runnable |-> FALSE]

\* The Node process is running its event loop.  It is not once an 'error'
\* event is due for a child that has no 'error' listener: process.nextTick
\* runs that callback before any other handler, and an 'error' event
\* without a listener is thrown and ends the process.
ErrorPending == last.op = "start" /\ last.spawn = "deferred"
Up == last.op # "crash" /\ ~ErrorPending

Init ==
    /\ serverStatus = "stopped"
    /\ llamaServerProcess = NoProcess
    /\ serverLogs = <<>>
    /\ alive = {}
    /\ spawned = 0
    /\ spawnArgs = <<>>
    /\ last = Outcome("init")
    /\ awaitingExit = FALSE
    /\ client = [form |-> DefaultForm,
                 commandDisplay |-> updateCommandPreview(DefaultForm),
                 startBtnDisabled |-> FALSE,
                 serverStatus |-> "stopped",
                 pc |-> "idle",
                 body |-> <<>>,
                 ok |-> FALSE,
                 polls |-> <<>>]

(***************************************************************************)
(* checkLlamaServer (src/install.js, lines 219..247).  An installation is  *)
(* the set of places that hold a runnable llama-server: the three paths    *)
(* the function tests with fs.existsSync ('llama-server' is a relative     *)
(* path, which existsSync resolves against the working directory), and     *)
(* OnPath, a directory of the PATH variable.                               *)
(***************************************************************************)
possiblePaths ==
    <<"llama.cpp/build/bin/llama-server", "llama.cpp/build/llama-server",
      "llama-server">>

OnPath == "PATH"

\* The loop of lines 227..232 returns the first path that exists.  The
\* probe of lines 235..244 starts `llama-server --help` and returns at
\* once: the `return 'llama-server'` of line 239 is the return of exec's
\* callback, which runs later and whose value nothing receives, so the
\* function returns null whatever the probe finds.
checkLlamaServer(install) ==
    LET exists == {i \in 1..Len(possiblePaths) : possiblePaths[i] \in install}
    IN IF exists # {}
       THEN Str(possiblePaths[CHOOSE i \in exists : \A j \in exists : i <= j])
       ELSE Null

(***************************************************************************)
(* POST /start-server (lines 67..170).  flags is the request body; install *)
(* is the installation checkLlamaServer looks at, and found whether it     *)
(* returned a path; nModels is the number of                               *)
(* .gguf files in the models directory; spawnResult is what spawn does:    *)
(*   "ok"        it returns a running child;                               *)
(*   "throws"    it throws synchronously (an argument holding a NUL byte,  *)
(*               an error libuv does not defer such as EPERM or E2BIG);    *)
(*   "deferred"  it returns a ChildProcess without pid and reports the     *)
(*               failure (ENOENT, EACCES: the path exists but cannot be    *)
(*               executed) in an 'error' event on the next tick.  The      *)
(*               handler registers no 'error' listener.                    *)
(***************************************************************************)
AlreadyRunning == serverStatus = "running"

\* The request passes every check before line 111.
StartAccepted(flags, found, nModels) ==
    /\ ~AlreadyRunning
    /\ found
    /\ nModels # 0
    /\ (Truthy(Lookup(flags, "model")) \/ HasPreset(flags))

\* The ChildProcess of a spawn that failed: it has no pid.
FailedChild == -1

StartRejectResetsStatus(seen, code, error) ==
    /\ last' = [seen EXCEPT !.code = code, !.error = error]
    /\ serverStatus' = "stopped"
    /\ UNCHANGED <<llamaServerProcess, serverLogs, alive, spawned, spawnArgs,
                   awaitingExit>>

\* return res.status(code).json({ error }); seen is what the request found.
StartReject(seen, code, error) ==
    /\ last' = [seen EXCEPT !.code = code, !.error = error]
    /\ UNCHANGED <<serverStatus, llamaServerProcess, serverLogs, alive,
                   spawned, spawnArgs, awaitingExit>>

StartServer(flags, install, nModels, spawnResult) ==
    LET req == [Outcome("start") EXCEPT !.flags = flags]
        serverPath == checkLlamaServer(install)
        found == Truthy(serverPath)
        seenBinary == [req EXCEPT !.binary = IF found THEN "found" ELSE "missing",
                                  !.serverPath = serverPath,
                                  !.runnable = install # {}]
        seenModels == [seenBinary EXCEPT !.models = nModels]
        seenSpawn == [seenModels EXCEPT !.spawn = spawnResult]
    IN
    /\ Up
    /\ IF AlreadyRunning
       THEN StartReject(req, 400, "Server is already running")
       ELSE IF ~found
       THEN StartReject(seenBinary, 503,
                        "llama-server is not installed or available")
       ELSE IF nModels = 0
       THEN StartReject(seenModels, 400, "No models found")
       ELSE IF ~Truthy(Lookup(flags, "model")) /\ ~HasPreset(flags)
       THEN StartReject(seenModels, 400,
                        "Please select a model or enable a preset")
       ELSE IF spawnResult = "throws"
       THEN \* line 111, then the catch block of lines 165..169
            /\ serverStatus' = "stopped"
            /\ last' = [seenSpawn EXCEPT !.code = 500, !.error = "spawn"]
            /\ UNCHANGED <<llamaServerProcess, serverLogs, alive, spawned,
                           spawnArgs, awaitingExit>>
       ELSE IF spawnResult = "deferred"
       THEN \* lines 111..164 on a ChildProcess that never ran
            /\ serverStatus' = "starting"
            /\ spawnArgs' = BuildArgs(flags)
            /\ llamaServerProcess' = FailedChild
            /\ last' = [seenSpawn EXCEPT !.code = 200, !.pid = FailedChild]
            /\ awaitingExit' = TRUE
            /\ UNCHANGED <<serverLogs, alive, spawned>>
       ELSE \* lines 111..164
            /\ serverStatus' = "starting"
            /\ spawnArgs' = BuildArgs(flags)
            /\ spawned' = spawned + 1
            /\ llamaServerProcess' = spawned + 1
            /\ alive' = alive \cup {spawned + 1}
            /\ last' = [seenSpawn EXCEPT !.code = 200, !.pid = spawned + 1]
            /\ awaitingExit' = TRUE
            /\ UNCHANGED serverLogs

\* The 'error' event of the failed child, emitted on the next tick with no
\* listener registered: the exception is uncaught and the process ends.
UnhandledError ==
    /\ ErrorPending
    /\ last' = Outcome("crash")
    /\ UNCHANGED <<serverStatus, llamaServerProcess, serverLogs, alive,
                   spawned, spawnArgs, awaitingExit>>

(***************************************************************************)
(* POST /stop-server (lines 173..184).  The child was spawned with         *)
(* detached: false (line 134), so it stays in the supervisor's process     *)
(* group; process.kill(-pid) addresses the group whose id is pid, and      *)
(* throws ESRCH when that group has no member.                             *)
(***************************************************************************)
Detached == FALSE
SupervisorGroup == 0
GroupOf(c) == IF Detached THEN c ELSE SupervisorGroup

\* The processes process.kill(-pid) delivers the signal to.
GroupMembers(pid) == {c \in alive : GroupOf(c) = pid}

StopServerReleases ==
    /\ Up
    /\ last' = [Outcome("stop") EXCEPT
                    !.code = IF llamaServerProcess = NoProcess THEN 400 ELSE 200,
                    !.kill = llamaServerProcess]
    /\ serverStatus' = "stopped"
    /\ llamaServerProcess' = NoProcess
    /\ UNCHANGED <<serverLogs, alive, spawned, spawnArgs, awaitingExit>>

StopServer ==
    /\ Up
    /\ IF llamaServerProcess = NoProcess
       THEN last' = [Outcome("stop") EXCEPT !.code = 400,
                                            !.error = "Server is not running"]
       ELSE IF GroupMembers(llamaServerProcess) = {}
       THEN last' = [Outcome("stop") EXCEPT !.code = 500, !.error = "ESRCH",
                                            !.kill = llamaServerProcess]
       ELSE last' = [Outcome("stop") EXCEPT !.code = 200,
                                            !.kill = llamaServerProcess]
    /\ UNCHANGED <<serverStatus, llamaServerProcess, serverLogs, alive,
                   spawned, spawnArgs, awaitingExit>>

(***************************************************************************)
(* GET /server-status (lines 187..192).                                    *)
(***************************************************************************)
LogWindow == 100

LastLogsFromStart(logs) ==
    IF Len(logs) <= LogWindow THEN logs ELSE SubSeq(logs, 1, LogWindow)

\* serverLogs.slice(-LogWindow)
LastLogs(logs) ==
    IF Len(logs) <= LogWindow THEN logs
    ELSE SubSeq(logs, Len(logs) - LogWindow + 1, Len(logs))

ServerStatus ==
    /\ Up
    /\ last' = [Outcome("status") EXCEPT !.code = 200,
                                         !.status = serverStatus,
                                         !.logs = LastLogs(serverLogs)]
    /\ UNCHANGED <<serverStatus, llamaServerProcess, serverLogs, alive,
                   spawned, spawnArgs, awaitingExit>>

(***************************************************************************)
(* POST /clear-logs (lines 221..224).                                      *)
(***************************************************************************)
ClearLogs ==
    /\ Up
    /\ serverLogs' = <<>>
    /\ last' = [Outcome("clear") EXCEPT !.code = 200]
    /\ UNCHANGED <<serverStatus, llamaServerProcess, alive, spawned,
                   spawnArgs, awaitingExit>>

(***************************************************************************)
(* The 'data' callbacks of the child's stdout and stderr (lines 137..151). *)
(* A chunk is the sequence of its characters.                              *)
(***************************************************************************)
Whitespace == {" ", "\t", "\n", "\r"}

RECURSIVE TrimStart(_)
TrimStart(cs) ==
    IF cs # <<>> /\ Head(cs) \in Whitespace THEN TrimStart(Tail(cs)) ELSE cs

RECURSIVE TrimEnd(_)
TrimEnd(cs) ==
    IF cs # <<>> /\ cs[Len(cs)] \in Whitespace
    THEN TrimEnd(SubSeq(cs, 1, Len(cs) - 1))
    ELSE cs

RECURSIVE Text(_)
Text(cs) == IF cs = <<>> THEN "" ELSE Head(cs) \o Text(Tail(cs))

\* data.toString().trim()
Trim(chunk) == Text(TrimEnd(TrimStart(chunk)))

\* serverLogs.unshift in place of serverLogs.push.
StreamDataUnshifts(type, c, chunk) ==
    /\ Up
    /\ c \in alive
    /\ serverLogs' = IF Trim(chunk) # ""
                     THEN <<LogEntry(type, Trim(chunk), c)>> \o serverLogs
                     ELSE serverLogs
    /\ last' = [Outcome(type) EXCEPT !.pid = c, !.message = Trim(chunk)]
    /\ UNCHANGED <<serverStatus, llamaServerProcess, alive, spawned,
                   spawnArgs, awaitingExit>>

\* The callback pushes to the array it captured when it was registered:
\* once /clear-logs has replaced the array, its entries are lost.
StreamDataStaleArray(type, c, chunk) ==
    /\ Up
    /\ c \in alive
    /\ serverLogs' = IF Trim(chunk) # "" /\ last.op # "clear"
                     THEN Append(serverLogs, LogEntry(type, Trim(chunk), c))
                     ELSE serverLogs
    /\ last' = [Outcome(type) EXCEPT !.pid = c, !.message = Trim(chunk)]
    /\ UNCHANGED <<serverStatus, llamaServerProcess, alive, spawned,
                   spawnArgs, awaitingExit>>

StreamData(type, c, chunk) ==
    /\ Up
    /\ c \in alive
    /\ serverLogs' = IF Trim(chunk) # ""
                     THEN Append(serverLogs, LogEntry(type, Trim(chunk), c))
                     ELSE serverLogs
    /\ last' = [Outcome(type) EXCEPT !.pid = c, !.message = Trim(chunk)]
    /\ UNCHANGED <<serverStatus, llamaServerProcess, alive, spawned,
                   spawnArgs, awaitingExit>>

StdoutData(c, chunk) == StreamData("stdout", c, chunk)
StderrData(c, chunk) == StreamData("stderr", c, chunk)

(***************************************************************************)
(* The 'close' callback (lines 153..162).  Node emits 'close' once per     *)
(* child, after the process has ended and its streams are closed; code is  *)
(* the exit code, or null when a signal ended the process.                 *)
(***************************************************************************)
ExitMessage(code) == "Process exited with code " \o ToStr(code)

CloseHandlerKeepsHandle(c, code) ==
    /\ serverStatus' = "stopped"
    /\ serverLogs' = Append(serverLogs, LogEntry("exit", ExitMessage(code), c))
    /\ UNCHANGED llamaServerProcess

\* The callback without its first statement.
CloseHandlerKeepsStatus(c, code) ==
    /\ UNCHANGED serverStatus
    /\ serverLogs' = Append(serverLogs, LogEntry("exit", ExitMessage(code), c))
    /\ llamaServerProcess' = NoProcess

CloseHandler(c, code) ==
    /\ serverStatus' = "stopped"
    /\ serverLogs' = Append(serverLogs, LogEntry("exit", ExitMessage(code), c))
    /\ llamaServerProcess' = NoProcess

\* The callback restarts the child that ended.
CloseRespawns(c, code) ==
    /\ Up
    /\ c \in alive
    /\ alive' = (alive \ {c}) \cup {spawned + 1}
    /\ spawned' = spawned + 1
    /\ CloseHandler(c, code)
    /\ last' = [Outcome("close") EXCEPT !.pid = c, !.exit = code]
    /\ awaitingExit' = FALSE
    /\ UNCHANGED spawnArgs

\* The callback registered for 'exit' in place of 'close': it runs when
\* the process has ended, while its streams may still hold data.
CloseOnExit(c, code) ==
    /\ Up
    /\ c \in alive
    /\ \A i \in 1..Len(serverLogs) :
          serverLogs[i].type = "exit" => serverLogs[i].pid # c
    /\ UNCHANGED alive
    /\ CloseHandler(c, code)
    /\ last' = [Outcome("close") EXCEPT !.pid = c, !.exit = code]
    /\ awaitingExit' = FALSE
    /\ UNCHANGED <<spawned, spawnArgs>>

Close(c, code) ==
    /\ Up
    /\ c \in alive
    /\ alive' = alive \ {c}
    /\ CloseHandler(c, code)
    /\ last' = [Outcome("close") EXCEPT !.pid = c, !.exit = code]
    /\ awaitingExit' = FALSE
    /\ UNCHANGED <<spawned, spawnArgs>>

(***************************************************************************)
(* The page's handlers (src/public/script.js).  client holds               *)
(*   form, commandDisplay   the inputs and the command preview;            *)
(*   startBtnDisabled       startBtn.disabled;                             *)
(*   serverStatus           the page's global of that name (line 2);       *)
(*   pc, body, ok           where the click handler of the Start button    *)
(*                          stands, the config it sent, response.ok;       *)
(*   polls                  the status requests in flight, oldest first:   *)
(*                          "sent", or the status the server answered.     *)
(* The page as the model starts it has its controls built and a model      *)
(* file listed (checkAvailableModels left the Start button enabled).       *)
(* An await ends a step: what follows it is another step.                  *)
(***************************************************************************)
\* An 'input' or 'change' event of the form (lines 200..201): the listener
\* updateCommandPreview reads the form and rewrites the preview.
FormInput(flagName, input) ==
    /\ client' = [client EXCEPT
                      !.form[flagName] = input,
                      !.commandDisplay = updateCommandPreview(
                          [client.form EXCEPT ![flagName] = input])]
    /\ UNCHANGED server

\* The click handler of the Start button up to its fetch (lines 205..218).
\* A disabled button fires no click; one click is handled at a time.
StartClick ==
    /\ ~client.startBtnDisabled
    /\ client.pc = "idle"
    /\ client' = [client EXCEPT !.startBtnDisabled = TRUE,
                                !.body = getFormValues(client.form),
                                !.pc = "fetching"]
    /\ UNCHANGED server

\* The server handles the request of the click handler.
StartServed(install, nModels, spawnResult) ==
    /\ client.pc = "fetching"
    /\ StartServer(JsonRoundTrip(client.body), install, nModels, spawnResult)
    /\ client' = [client EXCEPT !.pc = "responded", !.ok = (last'.code = 200)]

\* The response arrives (lines 220..227): the handler shows the alert and
\* waits for the user to close it.
StartResponse ==
    /\ client.pc = "responded"
    /\ client' = [client EXCEPT !.pc = "alert"]
    /\ UNCHANGED server

\* The user closes the alert (lines 223..234): after a success the handler
\* calls updateStatus, which sends its request and returns, and the
\* finally block enables the button.
AlertClosed ==
    /\ client.pc = "alert"
    /\ client.ok => Len(client.polls) < MaxPolls
    /\ client' = [client EXCEPT
                      !.polls = IF client.ok THEN Append(@, "sent") ELSE @,
                      !.startBtnDisabled = FALSE,
                      !.pc = "idle"]
    /\ UNCHANGED server

\* A tick of the timer of startStatusPolling (lines 316..319): updateStatus
\* up to its fetch (lines 271..273).
UpdateStatusFetch ==
    /\ Len(client.polls) < MaxPolls
    /\ client' = [client EXCEPT !.polls = Append(@, "sent")]
    /\ UNCHANGED server

\* The server handles the oldest status request not yet handled.
StatusServed ==
    /\ \E i \in 1..Len(client.polls) :
          /\ client.polls[i] = "sent"
          /\ \A j \in 1..(i - 1) : client.polls[j] # "sent"
          /\ client' = [client EXCEPT !.polls[i] = serverStatus]
    /\ ServerStatus

\* updateStatus after its awaits (lines 274..290), for the oldest request.
UpdateStatusResponse ==
    /\ client.polls # <<>>
    /\ Head(client.polls) # "sent"
    /\ client' = [client EXCEPT
                      !.serverStatus = Head(client.polls),
                      !.startBtnDisabled =
                          Head(client.polls) \in {"running", "starting"},
                      !.polls = Tail(@)]
    /\ UNCHANGED server

(***************************************************************************)
(* The inputs of the model.                                                *)
(***************************************************************************)
\* Request bodies of Spec: a model, a preset, neither.
StartBodies ==
    { <<<<"model", Str("m.gguf")>>, <<"threads", Num(8)>>>>,
      <<<<"embd-gemma-default", Bool(TRUE)>>>>,
      <<<<"verbose", Bool(TRUE)>>>> }

DataChunks == { <<"\n">>, <<"o", "k", "\n">> }

\* An exit code, or null for a child ended by a signal (SpecLog has the
\* exit code 0).
ExitCodes == { Num(1), Null }

Pids == 1..MaxChildren

SpawnResults == { "ok", "throws", "deferred" }

\* Installations of Spec: nothing installed, the downloaded binary.
Installs == { {}, {possiblePaths[1]} }

Next ==
    \/ \E flags \in StartBodies, install \in Installs, nModels \in {0, 1},
          spawnResult \in SpawnResults :
          /\ (StartAccepted(flags, Truthy(checkLlamaServer(install)), nModels)
                 /\ spawnResult = "ok")
                => spawned < MaxChildren
          /\ StartServer(flags, install, nModels, spawnResult)
          /\ UNCHANGED client
    \/ UnhandledError /\ UNCHANGED client
    \/ StopServer /\ UNCHANGED client
    \/ ServerStatus /\ UNCHANGED client
    \/ ClearLogs /\ UNCHANGED client
    \/ \E c \in Pids, chunk \in DataChunks :
          /\ Len(serverLogs) < MaxLogLen
          /\ StdoutData(c, chunk)
          /\ UNCHANGED client
    \/ \E c \in Pids, chunk \in DataChunks :
          /\ Len(serverLogs) < MaxLogLen
          /\ StderrData(c, chunk)
          /\ UNCHANGED client
    \/ \E c \in Pids, code \in ExitCodes :
          /\ Len(serverLogs) < MaxLogLen
          /\ Close(c, code)
          /\ UNCHANGED client

Spec == Init /\ [][Next]_vars

(***************************************************************************)
(* SpecLog: one child that writes to its stdout, so that the buffer grows  *)
(* past the status window and past MaxRetained.                            *)
(***************************************************************************)
NextLog ==
    \/ /\ spawned = 0
       /\ StartServer(<<<<"model", Str("m.gguf")>>>>, {possiblePaths[1]}, 1, "ok")
       /\ UNCHANGED client
    \/ ServerStatus /\ UNCHANGED client
    \/ ClearLogs /\ UNCHANGED client
    \/ \E c \in Pids :
          /\ Len(serverLogs) <= MaxRetained
          /\ StdoutData(c, <<"o", "k", "\n">>)
          /\ UNCHANGED client
    \/ \E c \in Pids : Close(c, Num(0)) /\ UNCHANGED client

SpecLog == Init /\ [][NextLog]_vars

(***************************************************************************)
(* SpecInstall: one child, started from every installation: any subset of  *)
(* the places that can hold llama-server.                                  *)
(***************************************************************************)
Places == {possiblePaths[i] : i \in 1..Len(possiblePaths)} \cup {OnPath}

NextInstall ==
    \/ \E flags \in StartBodies, install \in SUBSET Places, nModels \in {0, 1} :
          /\ StartAccepted(flags, Truthy(checkLlamaServer(install)), nModels)
                => spawned = 0
          /\ StartServer(flags, install, nModels, "ok")
          /\ UNCHANGED client
    \/ ServerStatus /\ UNCHANGED client
    \/ \E c \in Pids, code \in ExitCodes : Close(c, code) /\ UNCHANGED client

SpecInstall == Init /\ [][NextInstall]_vars

(***************************************************************************)
(* SpecArgs: one start request whose body ranges over every sequence of    *)
(* at most MaxFlags entries with distinct keys.  "seed" is a key the       *)
(* catalogue does not hold.                                                *)
(***************************************************************************)
FlagKeys == (DOMAIN flagDefinitions) \cup {"seed"}

FlagValues ==
    { Bool(TRUE), Bool(FALSE), Num(0), Num(4), Str(""), Str("m.gguf"), Null }

\* The bodies of n entries: n distinct keys in any order, any value each.
Body(ks, vs) == [i \in DOMAIN ks |-> <<ks[i], vs[i]>>]

DistinctKeys(ks) == \A i, j \in DOMAIN ks : ks[i] = ks[j] => i = j

NextArgs ==
    /\ last.op = "init"
    /\ \E n \in 0..MaxFlags :
          \E ks \in [1..n -> FlagKeys], vs \in [1..n -> FlagValues] :
              /\ DistinctKeys(ks)
              /\ StartServer(Body(ks, vs), {possiblePaths[1]}, 1, "ok")
              /\ UNCHANGED client

SpecArgs == Init /\ [][NextArgs]_vars

(***************************************************************************)
(* SpecForm: the user fills the form, every input ranging over its texts,  *)
(* and then starts the server once.                                        *)
(***************************************************************************)
NumberTexts == { <<>>, <<"0">>, <<"4">>, <<"8">>, <<"0", "4">> }

FormInputs(flagName) ==
    IF flagDefinitions[flagName].type = "boolean"
    THEN { Input(checked, <<>>) : checked \in BOOLEAN }
    ELSE IF flagDefinitions[flagName].type = "number"
    THEN { Input(FALSE, text) : text \in NumberTexts }
    ELSE { Input(FALSE, <<>>), Input(FALSE, <<"m.gguf">>) }

NextForm ==
    \/ /\ client.pc = "idle"
       /\ \E flagName \in DOMAIN flagDefinitions :
             \E input \in FormInputs(flagName) : FormInput(flagName, input)
    \/ StartClick
    \/ StartServed({possiblePaths[1]}, 1, "ok")

SpecForm == Init /\ [][NextForm]_vars

(***************************************************************************)
(* SpecClient: the page and the supervisor: the Start button, the status   *)
(* polling, and the children the start requests spawn.                     *)
(***************************************************************************)
NextClient ==
    \/ /\ client.pc = "idle"
       /\ \E input \in FormInputs("model") : FormInput("model", input)
    \/ StartClick
    \/ \E install \in Installs :
          /\ StartAccepted(JsonRoundTrip(client.body),
                           Truthy(checkLlamaServer(install)), 1)
                => spawned < MaxChildren
          /\ StartServed(install, 1, "ok")
    \/ StartResponse
    \/ AlertClosed
    \/ UpdateStatusFetch
    \/ StatusServed
    \/ UpdateStatusResponse
    \/ \E c \in Pids, code \in ExitCodes : Close(c, code) /\ UNCHANGED client

SpecClient == Init /\ [][NextClient]_vars

(***************************************************************************)
(*                          The claims                                     *)
(***************************************************************************)

\* The program state a refused request must leave alone.
Supervisor == <<serverStatus, llamaServerProcess, serverLogs, alive, spawned>>

\* C1: a start request made while the process state is not 'stopped' is
\* answered 400 "already running", changes neither the process state, the
\* tracked child nor the log buffer, and spawns no child.
StartRefusedUnlessStopped ==
    [][(serverStatus # "stopped" /\ last'.op = "start")
          => /\ last'.code = 400
             /\ last'.error = "Server is already running"
             /\ UNCHANGED Supervisor]_vars

\* C2: at most one spawned child is alive (spawned and not yet closed) at
\* any instant.
AtMostOneChildAlive == Cardinality(alive) <= 1

\* C3: whenever the process state is 'stopped', no spawned child is alive.
StoppedMeansNoChildAlive == serverStatus = "stopped" => alive = {}

\* C4: a status query made while the child of an accepted start is tracked
\* and has not exited reports 'running'.
StatusAfterStartReportsRunning ==
    (last.op = "status" /\ llamaServerProcess \in alive)
        => last.status = "running"

\* C5: once a start request has succeeded, no status query reports
\* 'stopped' before an exit entry has been appended to the log buffer.
NeverStoppedBeforeExitLogged ==
    (last.op = "status" /\ awaitingExit) => last.status # "stopped"

\* C6: a stop request made while the process state is 'stopped' is answered
\* 400 "not running" and process.kill is not called.
StopRefusedWhenStopped ==
    [][(serverStatus = "stopped" /\ last'.op = "stop")
          => /\ last'.code = 400
             /\ last'.error = "Server is not running"
             /\ last'.kill = NoProcess]_vars

\* C7: when a child closes with code c, the close callback appends exactly
\* one entry, of kind exit and carrying c, sets the process state to
\* 'stopped' and clears the tracked child handle; the child is closed from
\* then on, so the callback does not run for it again.
ExitHandlerEffect ==
    [][last'.op = "close"
          => /\ last'.pid \in alive
             /\ last'.pid \notin alive'
             /\ serverLogs' = Append(serverLogs,
                    LogEntry("exit",
                             "Process exited with code " \o ToStr(last'.exit),
                             last'.pid))
             /\ serverStatus' = "stopped"
             /\ llamaServerProcess' = NoProcess]_vars

\* A child has exited with code 1 and the callback has run.
ExitHandlerRan ==
    /\ last.op = "close"
    /\ last.exit = Num(1)
    /\ serverStatus = "stopped"
    /\ llamaServerProcess = NoProcess
    /\ serverLogs # <<>>
    /\ serverLogs[Len(serverLogs)].message = "Process exited with code 1"

\* C8: the log buffer never holds more than a fixed maximum of entries
\* (appending to a full buffer evicts the oldest entry instead of growing
\* it).
LogBufferBounded == Len(serverLogs) <= MaxRetained

\* The flag token of a key, and the number of times a token occurs.
FlagToken(key) == "--" \o key
Occurrences(args, tok) == Cardinality({p \in 1..Len(args) : args[p] = tok})
IsFlagToken(tok) == \E k \in FlagKeys : tok = FlagToken(k)

\* The last request was a start that spawned a child with spawnArgs.
Built == last.op = "start" /\ last.code = 200

\* C9: an entry whose value equals the flag's default, or is empty or null,
\* puts no token in the argument list.
DefaultsOmitted ==
    Built =>
        \A i \in 1..Len(last.flags) :
            LET key == last.flags[i][1]
                value == last.flags[i][2]
            IN (value = DefaultOf(key) \/ value \in {Str(""), Null})
                   => Occurrences(spawnArgs, FlagToken(key)) = 0

\* A child was spawned from a body holding a number at its default
\* (threads = 4 or keep = 0) and a boolean at its default.
DefaultSupplied ==
    /\ Built
    /\ \E i \in 1..Len(last.flags) :
          /\ last.flags[i][1] \in DOMAIN flagDefinitions
          /\ last.flags[i][2] = DefaultOf(last.flags[i][1])
          /\ last.flags[i][2].t = "number"
    /\ \E i \in 1..Len(last.flags) :
          /\ last.flags[i][1] \in DOMAIN flagDefinitions
          /\ last.flags[i][2] = DefaultOf(last.flags[i][1])
          /\ last.flags[i][2].t = "boolean"

\* C10: a boolean value that differs from the flag's default puts the
\* token --<flag> in the argument list exactly once, followed by no value
\* token, when it is true, and puts no token when it is false.
BooleanFlagTokens ==
    Built =>
        \A i \in 1..Len(last.flags) :
            LET key == last.flags[i][1]
                value == last.flags[i][2]
                tok == FlagToken(key)
            IN (value.t = "boolean" /\ value # DefaultOf(key))
                   => IF value.b
                      THEN /\ Occurrences(spawnArgs, tok) = 1
                           /\ \A p \in 1..Len(spawnArgs) :
                                 spawnArgs[p] = tok
                                     => \/ p = Len(spawnArgs)
                                        \/ IsFlagToken(spawnArgs[p + 1])
                      ELSE Occurrences(spawnArgs, tok) = 0

\* A child was spawned from a body that holds verbose = true, followed by
\* an entry that puts a flag token and a value token.
BooleanSupplied ==
    /\ Built
    /\ Len(last.flags) >= 2
    /\ last.flags[1] = <<"verbose", Bool(TRUE)>>
    /\ spawnArgs[1] = "--verbose"
    /\ Len(spawnArgs) = 3

\* The string form of a number or string value.
StringOf(value) == IF value.t = "number" THEN ToString(value.n) ELSE value.s

\* The entry puts tokens in the argument list: it is supplied, differs
\* from the default and is not the boolean false.
Emits(entry) ==
    /\ entry[2] \notin {Str(""), Null}
    /\ entry[2] # DefaultOf(entry[1])
    /\ entry[2] # Bool(FALSE)

\* The place of a token that occurs once.
Position(args, tok) == CHOOSE p \in 1..Len(args) : args[p] = tok

\* C11: a number or string value that differs from the flag's default puts
\* exactly two adjacent tokens in the argument list, --<flag> and then the
\* string form of the value; the tokens of different entries follow the
\* order of the entries in the request body.
NonBooleanFlagTokens ==
    Built =>
        /\ \A i \in 1..Len(last.flags) :
              LET key == last.flags[i][1]
                  value == last.flags[i][2]
                  tok == FlagToken(key)
              IN (value.t \in {"number", "string"} /\ Emits(last.flags[i]))
                     => /\ Occurrences(spawnArgs, tok) = 1
                        /\ \A p \in 1..Len(spawnArgs) :
                              spawnArgs[p] = tok
                                  => /\ p < Len(spawnArgs)
                                     /\ spawnArgs[p + 1] = StringOf(value)
                                     /\ \/ p + 1 = Len(spawnArgs)
                                        \/ IsFlagToken(spawnArgs[p + 2])
        /\ \A i, j \in 1..Len(last.flags) :
              (i < j /\ Emits(last.flags[i]) /\ Emits(last.flags[j]))
                  => /\ Occurrences(spawnArgs, FlagToken(last.flags[i][1])) = 1
                     /\ Occurrences(spawnArgs, FlagToken(last.flags[j][1])) = 1
                     /\ Position(spawnArgs, FlagToken(last.flags[i][1]))
                            < Position(spawnArgs, FlagToken(last.flags[j][1]))

\* A child was spawned from the body {threads: 0, model: "m.gguf"}.
NumberThenStringSupplied ==
    /\ Built
    /\ last.flags = <<<<"threads", Num(0)>>, <<"model", Str("m.gguf")>>>>
    /\ spawnArgs = <<"--threads", "0", "--model", "m.gguf">>

\* The value is supplied for a catalogued flag and its type is not the
\* type of the flag's entry.
TypeDisagrees(entry) ==
    /\ entry[1] \in DOMAIN flagDefinitions
    /\ entry[2] \notin {Str(""), Null}
    /\ entry[2].t # flagDefinitions[entry[1]].type

\* C12: a start request holding a value whose type disagrees with the type
\* of its flag is answered 400, spawns no child and leaves the process
\* state as it was.
TypeMismatchRejected ==
    (last.op = "start" /\ \E i \in 1..Len(last.flags) : TypeDisagrees(last.flags[i]))
        => /\ last.code = 400
           /\ spawned = 0
           /\ serverStatus = "stopped"

\* The errors of the three precondition checks.
PreconditionErrors ==
    { "llama-server is not installed or available", "No models found",
      "Please select a model or enable a preset" }

\* C13: a start request rejected because the binary is not found, no model
\* file is present or neither a model nor a preset is set changes neither
\* the process state, the tracked child nor the log buffer and spawns no
\* child.
RejectedStartChangesNothing ==
    [][(last'.op = "start" /\ last'.error \in PreconditionErrors)
          => /\ last'.code \in {400, 503}
             /\ UNCHANGED Supervisor
             /\ UNCHANGED spawnArgs]_vars

\* A start was rejected for a missing binary while a child was running.
StartRejectedWhileChildAlive ==
    /\ last.op = "start"
    /\ last.code = 503
    /\ serverStatus = "starting"
    /\ llamaServerProcess \in alive
    /\ serverLogs # <<>>

\* Neither a model nor a preset is set in the body.
NothingSelected(flags) == ~Truthy(Lookup(flags, "model")) /\ ~HasPreset(flags)

\* C14: a start request is answered 503 when the binary is not found, 400
\* when no model file is present or neither a model nor a preset is set,
\* 500 when creating the child fails, and 200 otherwise.
StartOutcomeByCause ==
    last.op = "start" =>
        /\ last.code \in {200, 400, 500, 503}
        /\ last.binary = "missing" => last.code = 503
        /\ last.models = 0 => last.code = 400
        /\ (last.models > 0 /\ NothingSelected(last.flags)) => last.code = 400
        /\ last.spawn \in {"throws", "deferred"} => last.code = 500
        /\ last.spawn = "ok" => last.code = 200

\* C15: when creating the child fails, the start request is answered with
\* the error, the process state is 'stopped' and the failed child is not
\* tracked.
SpawnFailureReverts ==
    (last.op = "start" /\ last.spawn \in {"throws", "deferred"})
        => /\ last.code = 500
           /\ serverStatus = "stopped"
           /\ llamaServerProcess # FailedChild

\* C16: a status query answers the current process state and the last
\* min(100, n) entries of the n-entry log buffer, in buffer order, and
\* changes nothing.
StatusIsRecentWindow ==
    [][last'.op = "status"
          => LET n == Len(serverLogs)
                 k == IF n < 100 THEN n ELSE 100
             IN /\ last'.status = serverStatus
                /\ Len(last'.logs) = k
                /\ \A i \in 1..k : last'.logs[i] = serverLogs[n - k + i]
                /\ UNCHANGED Supervisor]_vars

\* A status query was answered from a buffer of more than 100 entries
\* whose newest entry is the child's exit.
StatusWindowCut ==
    /\ last.op = "status"
    /\ Len(serverLogs) > 100
    /\ Len(last.logs) = 100
    /\ last.logs[100].type = "exit"
    /\ last.logs[1].type = "stdout"

\* C17: with the binary found and the process state 'stopped', a start
\* request that enables a preset is not rejected for lack of model files
\* or of a selected model.
PresetNeedsNoModel ==
    [][(serverStatus = "stopped" /\ last'.op = "start"
            /\ last'.binary = "found" /\ HasPreset(last'.flags))
          => last'.error \notin {"No models found",
                                 "Please select a model or enable a preset"}]_vars

OnlyExitHandlerStops ==
    [][(serverStatus # "stopped" /\ serverStatus' = "stopped")
          => last'.op = "close"]_vars

\* C20: a stop request made while a child is tracked is answered 200 and
\* its signal reaches the process group that holds the child.
StopSignalsChildGroup ==
    [][(llamaServerProcess \in alive /\ last'.op = "stop")
          => /\ last'.code = 200
             /\ llamaServerProcess \in GroupMembers(last'.kill)]_vars

\* C21: an entry whose key is not a key of the flag catalogue puts no token
\* in the argument list.
UnknownKeysIgnored ==
    Built =>
        \A i \in 1..Len(last.flags) :
            last.flags[i][1] \notin DOMAIN flagDefinitions
                => Occurrences(spawnArgs, FlagToken(last.flags[i][1])) = 0

\* The entry a callback appends: the kind of a 'data' callback is its
\* stream, the kind of the close callback is exit.
Appended(outcome) ==
    IF outcome.op = "close"
    THEN LogEntry("exit", "Process exited with code " \o ToStr(outcome.exit),
                  outcome.pid)
    ELSE LogEntry(outcome.op, outcome.message, outcome.pid)

\* The callback appends an entry: every close, and a 'data' callback whose
\* trimmed text is not empty.
Appends(outcome) ==
    \/ outcome.op = "close"
    \/ outcome.op \in {"stdout", "stderr"} /\ outcome.message # ""

\* C22: every step other than clear-logs leaves the log buffer as it was or
\* appends one entry at its end: the previous buffer is a prefix of the new
\* one, and the new entry is the one of the callback that ran.
LogsOnlyGrowAtEnd ==
    [][last'.op # "clear"
          => serverLogs' = IF Appends(last')
                           THEN Append(serverLogs, Appended(last'))
                           ELSE serverLogs]_vars

\* The buffer holds an entry of child 2's stderr, then the exit entry of
\* child 1, and a status query has been answered since.
EntriesInArrivalOrder ==
    /\ last.op = "status"
    /\ Len(serverLogs) = 2
    /\ serverLogs[1] = LogEntry("stderr", "ok", 2)
    /\ serverLogs[2] = LogEntry("exit", "Process exited with code null", 1)

\* C23: a clear-logs request leaves the buffer empty whatever was appended
\* before it, and a callback that runs right after it leaves exactly its
\* own entry in the buffer, once.
ClearAtomicWithAppends ==
    [][/\ last'.op = "clear" => serverLogs' = <<>>
       /\ (last.op = "clear" /\ last'.op \in {"stdout", "stderr", "close"})
              => serverLogs' = IF Appends(last') THEN <<Appended(last')>>
                               ELSE <<>>]_vars

\* Child 1 has closed and its exit entry has been cleared since; the buffer
\* holds the one entry child 2 wrote after the clear.
AppendedAfterClear ==
    /\ last.op = "stderr"
    /\ spawned = 2
    /\ alive = {2}
    /\ serverLogs = <<LogEntry("stderr", "ok", 2)>>

\* C24: a child is spawned only in the step of a start request answered
\* 200, one child per request; no other step, a close callback included,
\* spawns one.
NoSpawnWithoutStart ==
    [][(spawned' # spawned \/ ~(alive' \subseteq alive))
          => /\ last'.op = "start"
             /\ last'.code = 200
             /\ spawned' = spawned + 1
             /\ alive' = alive \cup {spawned'}]_vars

\* The only child has exited with code 1 and a status query was answered
\* afterwards: no child is alive.
NoChildAfterExit ==
    /\ last.op = "status"
    /\ last.status = "stopped"
    /\ spawned = 1
    /\ alive = {}
    /\ serverLogs # <<>>
    /\ serverLogs[Len(serverLogs)].type = "exit"

\* C27: no stdout or stderr entry of a child follows that child's exit
\* entry in the log buffer.
ExitEntryIsLast ==
    \A i, j \in 1..Len(serverLogs) :
        (i < j /\ serverLogs[i].type = "exit")
            => serverLogs[j].pid # serverLogs[i].pid

\* The exit entry of one child is followed by output of the other child.
ExitThenOtherChildOutput ==
    \E i, j \in 1..Len(serverLogs) :
        /\ i < j
        /\ serverLogs[i].type = "exit"
        /\ serverLogs[j].type \in {"stdout", "stderr"}

\* C28: while a spawned child is alive, the tracked handle is that of a
\* live child, and no stop request is answered "not running".
LiveChildIsTracked ==
    /\ alive # {} => llamaServerProcess \in alive
    /\ (last.op = "stop" /\ alive # {})
           => last.error # "Server is not running"

\* C29: while the process state is not 'stopped' a child handle is tracked,
\* and no stop request is answered "not running".
NotStoppedMeansTracked ==
    /\ serverStatus # "stopped" => llamaServerProcess # NoProcess
    /\ (last.op = "stop" /\ serverStatus # "stopped")
           => last.error # "Server is not running"

\* A stop request was answered while the second child was starting and
\* the first had closed.
StopAnsweredForSecondChild ==
    /\ last.op = "stop"
    /\ last.code # 400
    /\ serverStatus = "starting"
    /\ spawned = 2
    /\ alive = {2}
    /\ llamaServerProcess = 2

\* C25: checkLlamaServer returns a path whenever llama-server can be run,
\* also when only PATH holds it; a start request made then is not answered
\* 503.
PathProbeResultReturned ==
    (last.op = "start" /\ last.runnable)
        => /\ last.serverPath # Null
           /\ last.code # 503

\* The preview's tokens are the server's: the flag tokens as they are, the
\* value tokens between quotes.
SameTokens(preview, args) ==
    /\ Len(preview) = Len(args)
    /\ \A p \in 1..Len(args) :
          preview[p] = IF IsFlagToken(args[p]) THEN args[p]
                       ELSE "\"" \o args[p] \o "\""

\* C26: when the server spawns a child from the configuration getFormValues
\* made of the form, the flag tokens of the command preview of that form
\* are the tokens of the child's argument list, in the same order, the
\* preview's values standing between quotes.
PreviewMatchesServerArgs ==
    (client.pc = "responded" /\ client.ok)
        => SameTokens(client.commandDisplay, spawnArgs)

\* A child was spawned from a form with a model, threads typed as 8,
\* verbose checked and mmap (default: checked) unchecked.
PreviewedFormStarted ==
    /\ client.pc = "responded"
    /\ client.ok
    /\ ~client.form["mmap"].checked
    /\ client.body = <<<<"model", Str("m.gguf")>>, <<"threads", Num(8)>>,
                       <<"verbose", Bool(TRUE)>>, <<"mmap", Bool(FALSE)>>>>
    /\ client.commandDisplay =
           <<"--model", "\"m.gguf\"", "--threads", "\"8\"", "--verbose">>
    /\ spawnArgs = <<"--model", "m.gguf", "--threads", "8", "--verbose">>

\* C30: whenever the status the page polled last is 'starting' or
\* 'running', the Start button is disabled.
StartDisabledWhileRunning ==
    client.serverStatus \in {"starting", "running"} => client.startBtnDisabled

=============================================================================
